---- MODULE Spec2Model ----
(***************************************************************************)
(* State-machine model of the reselling platform API (src/main.py): the    *)
(* gadget listing table and its status transitions, the admin credential   *)
(* store, the bearer-token issue/verify path, the buyer questions and the  *)
(* settings table.  One action per HTTP handler; `req` and `resp` hold the *)
(* request just answered and its response, `before` the gadgets table as   *)
(* it was when that request arrived.  `inflight` holds the settings         *)
(* requests that worker processes serve statement by statement.            *)
(***************************************************************************)
EXTENDS Integers, Sequences, FiniteSets, TLC

VARIABLES gadgets, questions, settings, admins, now, issued, req, resp, before,
          inflight

vars == <<gadgets, questions, settings, admins, now, issued, req, resp, before,
          inflight>>

\* Everything the database stores.
db == <<gadgets, questions, settings, admins>>

-----------------------------------------------------------------------------
\* Bounds of the model.
MaxListings == 2
MaxQuestions == 1
\* Listings in the token and the unknown-id workloads.
MaxFewListings == 1
\* The clock of the token workload: minutes per tick, and the last minute.
TickMinutes == 15
MaxAuthTime == 45
\* Settings requests served by concurrent workers.
MaxRequests == 3

\* Configuration (minutes).
ACCESS_TOKEN_EXPIRE_MINUTES == 30
DEFAULT_EXPIRE_MINUTES == 15

-----------------------------------------------------------------------------
\* Enums.
GadgetCondition == {"new", "used", "open_box"}
GadgetType == {"phone", "laptop", "other"}
ListingStatus == {"pending", "available", "sold", "deleted"}

\* A nullable column: NULL, or Some(v).
NULL == <<>>
Some(v) == <<v>>
IsNull(x) == x = NULL
Val(x) == x[1]

Max(S) == CHOOSE x \in S : \A y \in S : y <= x

\* The primary key the database gives a new row.
NewId(table) == IF DOMAIN table = {} THEN 1 ELSE Max(DOMAIN table) + 1

\* The table with one more row / without a row.
Insert(table, id, row) == [i \in DOMAIN table \cup {id} |-> IF i = id THEN row ELSE table[i]]
Delete(table, id) == [i \in DOMAIN table \ {id} |-> table[i]]

-----------------------------------------------------------------------------
\* Security.
get_password_hash(password) == <<"bcrypt", password>>

verify_password(plain_password, hashed_password) ==
    hashed_password = get_password_hash(plain_password)

\* jwt.encode over {"sub": ..., "exp": ...}: the token carries the claims and a
\* signature made with SECRET_KEY.
NoToken == [kind |-> "none"]
Jwt(sub, exp, sig) == [kind |-> "jwt", sub |-> sub, exp |-> exp, sig |-> sig]

create_access_token(sub, expires_delta) ==
    LET expire == now + (IF expires_delta = NULL THEN DEFAULT_EXPIRE_MINUTES
                         ELSE Val(expires_delta))
    IN  Jwt(sub, expire, "valid")

\* jwt.decode: the payload, or JWTError for a bad signature or a passed expiry.
JWTError == [error |-> "JWTError"]
jwt_decode_noexp(token) ==
    IF token.sig # "valid" THEN JWTError
    ELSE [sub |-> token.sub, exp |-> token.exp]
jwt_decode(token) ==
    IF token.sig # "valid" THEN JWTError
    ELSE IF token.exp < now THEN JWTError
    ELSE [sub |-> token.sub, exp |-> token.exp]

\* The dependency of every admin route: TRUE when the bearer token names an admin.
get_current_admin(token) ==
    IF token.kind = "none" THEN FALSE
    ELSE LET payload == jwt_decode(token)
         IN  IF payload = JWTError THEN FALSE
             ELSE IF IsNull(payload.sub) THEN FALSE
             ELSE Val(payload.sub) \in DOMAIN admins

\* Setting rows with the key, and .first() of that query.
SettingRows(key) == {id \in DOMAIN settings : settings[id].key = key}
First(ids) == CHOOSE i \in ids : \A j \in ids : i <= j

get_admin_whatsapp ==
    LET rows == SettingRows("whatsapp_number")
    IN  IF rows = {} THEN NULL ELSE Some(settings[First(rows)].value)

-----------------------------------------------------------------------------
\* Responses.
Answer(code, body) == [code |-> code, body |-> body]
NoBody == <<>>

\* An HTTPException raised before any write: nothing is stored.
Raise(code) ==
    /\ resp' = Answer(code, NoBody)
    /\ UNCHANGED <<gadgets, questions, settings, admins, issued>>

\* What every handler does on arrival.
Arrive(r) ==
    /\ req' = r
    /\ before' = gadgets
    /\ UNCHANGED <<now, inflight>>

-----------------------------------------------------------------------------
\* POST /seller/submit
seller_gadget_data_available(d) ==
    [name |-> d.name, gadget_type |-> d.gadget_type, condition |-> d.condition,
     description |-> d.description, seller_price |-> d.seller_price,
     listing_price |-> Some(d.seller_price),
     seller_contact_info |-> d.seller_contact_info,
     photo_url |-> d.photo, status |-> "available"]
seller_gadget_data(d) ==
    [name |-> d.name, gadget_type |-> d.gadget_type, condition |-> d.condition,
     description |-> d.description, seller_price |-> d.seller_price,
     listing_price |-> NULL,
     seller_contact_info |-> d.seller_contact_info,
     photo_url |-> d.photo, status |-> "pending"]

submit_gadget(d) ==
    /\ Arrive([op |-> "submit_gadget", data |-> d])
    /\ LET id == NewId(gadgets)
       IN  /\ gadgets' = Insert(gadgets, id, seller_gadget_data(d))
           /\ resp' = Answer(200, [id |-> id, row |-> gadgets'[id]])
    /\ UNCHANGED <<questions, settings, admins, issued>>

\* POST /admin/login
admin_login_default_expiry(username, password) ==
    /\ Arrive([op |-> "admin_login", username |-> username, password |-> password])
    /\ IF username \notin DOMAIN admins \/ ~verify_password(password, admins[username])
       THEN Raise(401)
       ELSE LET access_token == create_access_token(Some(username), NULL)
            IN  /\ resp' = Answer(200, access_token)
                /\ issued' = issued \cup {access_token}
                /\ UNCHANGED <<gadgets, questions, settings, admins>>
admin_login(username, password) ==
    /\ Arrive([op |-> "admin_login", username |-> username, password |-> password])
    /\ IF username \notin DOMAIN admins \/ ~verify_password(password, admins[username])
       THEN Raise(401)
       ELSE LET access_token ==
                    create_access_token(Some(username), Some(ACCESS_TOKEN_EXPIRE_MINUTES))
            IN  /\ resp' = Answer(200, access_token)
                /\ issued' = issued \cup {access_token}
                /\ UNCHANGED <<gadgets, questions, settings, admins>>

\* POST /admin/add
admin_gadget_data(d) ==
    [name |-> d.name, gadget_type |-> d.gadget_type, condition |-> d.condition,
     description |-> d.description, seller_price |-> d.seller_price,
     listing_price |-> Some(d.listing_price),
     seller_contact_info |-> d.seller_contact_info,
     photo_url |-> d.photo, status |-> "available"]

add_listing(token, d) ==
    /\ Arrive([op |-> "add_listing", token |-> token, data |-> d])
    /\ IF ~get_current_admin(token) THEN Raise(401)
       ELSE LET id == NewId(gadgets)
            IN  /\ gadgets' = Insert(gadgets, id, admin_gadget_data(d))
                /\ resp' = Answer(200, [id |-> id, row |-> gadgets'[id]])
                /\ UNCHANGED <<questions, settings, admins, issued>>

\* GET /admin/dashboard
WithStatus(s) == {id \in DOMAIN gadgets : gadgets[id].status = s}

get_dashboard_data(token) ==
    /\ Arrive([op |-> "get_dashboard_data", token |-> token])
    /\ IF ~get_current_admin(token) THEN Raise(401)
       ELSE /\ resp' = Answer(200, [pending_listings |-> WithStatus("pending"),
                                    active_listings |-> WithStatus("available"),
                                    sold_listings |-> WithStatus("sold"),
                                    buyer_questions |-> DOMAIN questions])
            /\ UNCHANGED <<gadgets, questions, settings, admins, issued>>

\* PUT /admin/listings/{listing_id}
\* update_data.dict(exclude_unset=True): the supplied fields only; setattr each.
SetAttrs_exclude_none(row, update_data) ==
    [name |-> IF "name" \in DOMAIN update_data THEN update_data.name ELSE row.name,
     gadget_type |-> IF "gadget_type" \in DOMAIN update_data
                     THEN update_data.gadget_type ELSE row.gadget_type,
     condition |-> IF "condition" \in DOMAIN update_data
                   THEN update_data.condition ELSE row.condition,
     description |-> IF "description" \in DOMAIN update_data
                     THEN update_data.description ELSE row.description,
     seller_price |-> IF "seller_price" \in DOMAIN update_data
                      THEN update_data.seller_price ELSE row.seller_price,
     listing_price |-> IF "listing_price" \in DOMAIN update_data
                          /\ ~IsNull(update_data.listing_price)
                       THEN update_data.listing_price ELSE row.listing_price,
     seller_contact_info |-> row.seller_contact_info,
     photo_url |-> row.photo_url,
     status |-> row.status]
SetAttrs(row, update_data) ==
    [name |-> IF "name" \in DOMAIN update_data THEN update_data.name ELSE row.name,
     gadget_type |-> IF "gadget_type" \in DOMAIN update_data
                     THEN update_data.gadget_type ELSE row.gadget_type,
     condition |-> IF "condition" \in DOMAIN update_data
                   THEN update_data.condition ELSE row.condition,
     description |-> IF "description" \in DOMAIN update_data
                     THEN update_data.description ELSE row.description,
     seller_price |-> IF "seller_price" \in DOMAIN update_data
                      THEN update_data.seller_price ELSE row.seller_price,
     listing_price |-> IF "listing_price" \in DOMAIN update_data
                       THEN update_data.listing_price ELSE row.listing_price,
     seller_contact_info |-> row.seller_contact_info,
     photo_url |-> row.photo_url,
     status |-> row.status]

update_listing_details(token, listing_id, update_data) ==
    /\ Arrive([op |-> "update_listing_details", token |-> token, id |-> listing_id,
               update_data |-> update_data])
    /\ IF ~get_current_admin(token) THEN Raise(401)
       ELSE IF listing_id \notin DOMAIN gadgets THEN Raise(404)
       ELSE /\ gadgets' = [gadgets EXCEPT ![listing_id] = SetAttrs(@, update_data)]
            /\ resp' = Answer(200, [id |-> listing_id, row |-> gadgets'[listing_id]])
            /\ UNCHANGED <<questions, settings, admins, issued>>

\* PATCH /admin/listings/{listing_id}/status
\* The three branches of the handler: restore, soft reject, anything else.
new_status_restore_to_pending(current, requested) ==
    IF current = "deleted" /\ requested \in {"available", "pending"} THEN "pending"
    ELSE IF current = "pending" /\ requested = "deleted" THEN "deleted"
    ELSE requested
new_status_no_restore_to_sold(current, requested) ==
    IF current = "deleted" /\ requested \in {"available", "pending"} THEN requested
    ELSE IF current = "pending" /\ requested = "deleted" THEN "deleted"
    ELSE IF current = "deleted" THEN current
    ELSE requested
new_status(current, requested) ==
    IF current = "deleted" /\ requested \in {"available", "pending"} THEN requested
    ELSE IF current = "pending" /\ requested = "deleted" THEN "deleted"
    ELSE requested

update_listing_status_hard_delete(token, listing_id, status) ==
    /\ Arrive([op |-> "update_listing_status", token |-> token, id |-> listing_id,
               status |-> status])
    /\ IF ~get_current_admin(token) THEN Raise(401)
       ELSE IF listing_id \notin DOMAIN gadgets THEN Raise(404)
       ELSE IF gadgets[listing_id].status = "pending" /\ status = "deleted"
       THEN /\ gadgets' = Delete(gadgets, listing_id)
            /\ resp' = Answer(200, NoBody)
            /\ UNCHANGED <<questions, settings, admins, issued>>
       ELSE /\ gadgets' = [gadgets EXCEPT ![listing_id].status = new_status(@, status)]
            /\ resp' = Answer(200, [id |-> listing_id, row |-> gadgets'[listing_id]])
            /\ UNCHANGED <<questions, settings, admins, issued>>
update_listing_status(token, listing_id, status) ==
    /\ Arrive([op |-> "update_listing_status", token |-> token, id |-> listing_id,
               status |-> status])
    /\ IF ~get_current_admin(token) THEN Raise(401)
       ELSE IF listing_id \notin DOMAIN gadgets THEN Raise(404)
       ELSE /\ gadgets' = [gadgets EXCEPT ![listing_id].status = new_status(@, status)]
            /\ resp' = Answer(200, [id |-> listing_id, row |-> gadgets'[listing_id]])
            /\ UNCHANGED <<questions, settings, admins, issued>>

\* POST /admin/settings
update_settings(token, whatsapp_number) ==
    /\ Arrive([op |-> "update_settings", token |-> token,
               whatsapp_number |-> whatsapp_number])
    /\ IF ~get_current_admin(token) THEN Raise(401)
       ELSE LET rows == SettingRows("whatsapp_number")
            IN  /\ settings' =
                      IF rows # {}
                      THEN [settings EXCEPT ![First(rows)].value = whatsapp_number]
                      ELSE Insert(settings, NewId(settings),
                                  [key |-> "whatsapp_number", value |-> whatsapp_number])
                /\ resp' = Answer(200, whatsapp_number)
                /\ UNCHANGED <<gadgets, questions, admins, issued>>

\* POST /admin/settings, as a worker process runs it next to other workers on
\* the same database file: the request is admitted (dependencies), the handler
\* runs its query, and later flushes and commits.
\* The unique index on Setting.key refuses a second row for a key.
UniqueViolation_off(key) == FALSE
UniqueViolation(key) == SettingRows(key) # {}

update_settings_begin(token, whatsapp_number) ==
    /\ req' = [op |-> "update_settings", token |-> token,
               whatsapp_number |-> whatsapp_number]
    /\ before' = gadgets
    /\ IF ~get_current_admin(token)
       THEN /\ resp' = Answer(401, NoBody)
            /\ UNCHANGED inflight
       ELSE /\ inflight' = Insert(inflight, NewId(inflight),
                                  [whatsapp_number |-> whatsapp_number,
                                   pc |-> "query", whatsapp_setting |-> NULL,
                                   code |-> 0])
            /\ resp' = Answer(0, NoBody)
    /\ UNCHANGED <<gadgets, questions, settings, admins, issued, now>>

\* whatsapp_setting = db.query(Setting).filter(...).first()
update_settings_query(r) ==
    /\ inflight[r].pc = "query"
    /\ LET rows == SettingRows("whatsapp_number")
       IN  inflight' =
              [inflight EXCEPT
                 ![r].pc = "commit",
                 ![r].whatsapp_setting =
                     IF rows = {} THEN NULL
                     ELSE Some([id |-> First(rows),
                                value |-> settings[First(rows)].value])]
    /\ UNCHANGED <<gadgets, questions, settings, admins, issued, now,
                   req, resp, before>>

\* The assignment or db.add, then db.commit(): the flush writes an UPDATE of
\* the loaded row only when the value differs from the one loaded, or the
\* INSERT, which the unique index may refuse (IntegrityError, answered 500).
update_settings_commit(r) ==
    /\ inflight[r].pc = "commit"
    /\ LET w == inflight[r]
           failed == IsNull(w.whatsapp_setting) /\ UniqueViolation("whatsapp_number")
       IN  /\ settings' =
                 IF ~IsNull(w.whatsapp_setting)
                 THEN IF Val(w.whatsapp_setting).value = w.whatsapp_number
                      THEN settings
                      ELSE [settings EXCEPT
                              ![Val(w.whatsapp_setting).id].value = w.whatsapp_number]
                 ELSE IF failed THEN settings
                 ELSE Insert(settings, NewId(settings),
                             [key |-> "whatsapp_number", value |-> w.whatsapp_number])
           /\ inflight' = [inflight EXCEPT ![r].pc = "done",
                                           ![r].code = IF failed THEN 500 ELSE 200]
           /\ resp' = IF failed THEN Answer(500, NoBody)
                      ELSE Answer(200, w.whatsapp_number)
           /\ req' = [op |-> "update_settings", whatsapp_number |-> w.whatsapp_number]
           /\ before' = gadgets
    /\ UNCHANGED <<gadgets, questions, admins, issued, now>>

\* POST /buyer/question
submit_question(question) ==
    /\ Arrive([op |-> "submit_question", question |-> question])
    /\ questions' = Insert(questions, NewId(questions), question)
    /\ resp' = Answer(200, NoBody)
    /\ UNCHANGED <<gadgets, settings, admins, issued>>

\* DELETE /admin/questions/{question_id}
delete_question(token, question_id) ==
    /\ Arrive([op |-> "delete_question", token |-> token, id |-> question_id])
    /\ IF ~get_current_admin(token) THEN Raise(401)
       ELSE IF question_id \notin DOMAIN questions THEN Raise(404)
       ELSE /\ questions' = Delete(questions, question_id)
            /\ resp' = Answer(204, NoBody)
            /\ UNCHANGED <<gadgets, settings, admins, issued>>

-----------------------------------------------------------------------------
\* GET /listings and GET /listings/approved
\* The base query: status == AVAILABLE and listing_price IS NOT NULL.
PublicFilter_status_only(g) == g.status = "available"
PublicFilter(g) == g.status = "available" /\ ~IsNull(g.listing_price)

\* SQL comparison of a nullable column with a value: NULL compares as no match.
Ge(col, v) == ~IsNull(col) /\ Val(col) >= v
Le(col, v) == ~IsNull(col) /\ Val(col) <= v

\* The optional filters, each applied only when given.
Matching(gadget_type, price_min, price_max, condition) ==
    {id \in DOMAIN gadgets :
        /\ PublicFilter(gadgets[id])
        /\ IsNull(gadget_type) \/ gadgets[id].gadget_type = Val(gadget_type)
        /\ IsNull(price_min) \/ Ge(gadgets[id].listing_price, Val(price_min))
        /\ IsNull(price_max) \/ Le(gadgets[id].listing_price, Val(price_max))
        /\ IsNull(condition) \/ gadgets[id].condition = Val(condition)}

\* order_by(GadgetListing.id.desc())
RECURSIVE OrderByIdDesc(_)
OrderByIdDesc(ids) ==
    IF ids = {} THEN <<>>
    ELSE <<Max(ids)>> \o OrderByIdDesc(ids \ {Max(ids)})

\* PublicGadget.from_orm(gadget) with admin_whatsapp_number filled in.
PublicGadget(id, admin_whatsapp) ==
    [id |-> id, name |-> gadgets[id].name, gadget_type |-> gadgets[id].gadget_type,
     condition |-> gadgets[id].condition, description |-> gadgets[id].description,
     listing_price |-> gadgets[id].listing_price, photo_url |-> gadgets[id].photo_url,
     status |-> gadgets[id].status, admin_whatsapp_number |-> admin_whatsapp]

PublicResponse(ids) ==
    LET ordered == OrderByIdDesc(ids)
    IN  [i \in 1..Len(ordered) |-> PublicGadget(ordered[i], get_admin_whatsapp)]

get_public_listings(gadget_type, price_min, price_max, condition) ==
    /\ Arrive([op |-> "get_public_listings", gadget_type |-> gadget_type,
               price_min |-> price_min, price_max |-> price_max,
               condition |-> condition])
    /\ resp' = Answer(200, PublicResponse(Matching(gadget_type, price_min,
                                                   price_max, condition)))
    /\ UNCHANGED <<gadgets, questions, settings, admins, issued>>

get_approved_listings ==
    /\ Arrive([op |-> "get_approved_listings"])
    /\ resp' = Answer(200, PublicResponse({id \in DOMAIN gadgets :
                                              PublicFilter(gadgets[id])}))
    /\ UNCHANGED <<gadgets, questions, settings, admins, issued>>

\* GET /admin/listings/pending
get_pending_listings(token) ==
    /\ Arrive([op |-> "get_pending_listings", token |-> token])
    /\ IF ~get_current_admin(token) THEN Raise(401)
       ELSE /\ resp' = Answer(200, WithStatus("pending"))
            /\ UNCHANGED <<gadgets, questions, settings, admins, issued>>

\* POST /admin/listings/bulk
BulkAllowed_any == ListingStatus
BulkAllowed == {"available", "deleted", "sold"}

bulk_update_listings_skip_count(token, action, listing_ids) ==
    /\ Arrive([op |-> "bulk_update_listings", token |-> token, action |-> action,
               listing_ids |-> listing_ids])
    /\ IF ~get_current_admin(token) THEN Raise(401)
       ELSE IF action \notin BulkAllowed THEN Raise(400)
       ELSE LET listings == listing_ids \cap DOMAIN gadgets
            IN  /\ gadgets' = [id \in DOMAIN gadgets |->
                                  IF id \in listings
                                  THEN [gadgets[id] EXCEPT !.status = action]
                                  ELSE gadgets[id]]
                /\ resp' = Answer(200, [count |-> Cardinality(listings),
                                        action |-> action])
                /\ UNCHANGED <<questions, settings, admins, issued>>
bulk_update_listings_keep_deleted(token, action, listing_ids) ==
    /\ Arrive([op |-> "bulk_update_listings", token |-> token, action |-> action,
               listing_ids |-> listing_ids])
    /\ IF ~get_current_admin(token) THEN Raise(401)
       ELSE IF action \notin BulkAllowed THEN Raise(400)
       ELSE LET listings == listing_ids \cap DOMAIN gadgets
            IN  IF Cardinality(listings) = 0 THEN Raise(404)
                ELSE /\ gadgets' = [id \in DOMAIN gadgets |->
                                       IF id \in listings
                                       THEN [gadgets[id] EXCEPT
                                               !.status = new_status_no_restore_to_sold(@, action)]
                                       ELSE gadgets[id]]
                     /\ resp' = Answer(200, [count |-> Cardinality(listings),
                                             action |-> action])
                     /\ UNCHANGED <<questions, settings, admins, issued>>
bulk_update_listings(token, action, listing_ids) ==
    /\ Arrive([op |-> "bulk_update_listings", token |-> token, action |-> action,
               listing_ids |-> listing_ids])
    /\ IF ~get_current_admin(token) THEN Raise(401)
       ELSE IF action \notin BulkAllowed THEN Raise(400)
       ELSE LET listings == listing_ids \cap DOMAIN gadgets
            IN  IF Cardinality(listings) = 0 THEN Raise(404)
                ELSE /\ gadgets' = [id \in DOMAIN gadgets |->
                                       IF id \in listings
                                       THEN [gadgets[id] EXCEPT !.status = action]
                                       ELSE gadgets[id]]
                     /\ resp' = Answer(200, [count |-> Cardinality(listings),
                                             action |-> action])
                     /\ UNCHANGED <<questions, settings, admins, issued>>

-----------------------------------------------------------------------------
\* Time passes between requests; no request is being answered.
Idle == [op |-> "none"]
Tick ==
    /\ now' = now + TickMinutes
    /\ req' = Idle
    /\ resp' = Answer(0, NoBody)
    /\ before' = gadgets
    /\ UNCHANGED <<gadgets, questions, settings, admins, issued, inflight>>

\* The state after construction: empty tables (create_all) and the admin that
\* the provisioning script inserts.
Init ==
    /\ gadgets = <<>>
    /\ questions = <<>>
    /\ settings = <<>>
    /\ admins = [u \in {"hikmaadmin"} |-> get_password_hash("alhikmatech")]
    /\ now = 0
    /\ issued = {}
    /\ req = Idle
    /\ resp = Answer(0, NoBody)
    /\ before = <<>>
    /\ inflight = <<>>

-----------------------------------------------------------------------------
\* Request inputs.
Usernames == {"hikmaadmin", "ghost"}
Passwords == {"alhikmatech", "wrong"}
Subjects == {Some("hikmaadmin"), Some("ghost"), NULL}

\* Tokens a client may present that no login of this run issued: none at all,
\* one with a broken signature, one signed earlier whose expiry has passed, one
\* signed for a subject that is not an admin, one without a subject.
ForeignTokens ==
    {NoToken,
     Jwt(Some("hikmaadmin"), ACCESS_TOKEN_EXPIRE_MINUTES, "tampered"),
     Jwt(Some("hikmaadmin"), now - TickMinutes, "valid"),
     Jwt(Some("ghost"), ACCESS_TOKEN_EXPIRE_MINUTES, "valid"),
     Jwt(NULL, ACCESS_TOKEN_EXPIRE_MINUTES, "valid")}

GadgetData(types, conditions, prices) ==
    [name : {"iPhone"}, gadget_type : types, condition : conditions,
     description : {"good"}, seller_price : {5}, listing_price : prices,
     seller_contact_info : {"seller"}, photo : {"/uploads/p.jpg"}]

SubmitInputs == GadgetData({"phone"}, {"used"}, {10})
AddInputs == GadgetData({"phone"}, {"used"}, {10})
UpdateInputs == {<<>>, [listing_price |-> NULL], [listing_price |-> Some(10)]}
Numbers == {"w1"}
QuestionInputs == {[question |-> "q", contact_info |-> "c"]}

\* The listing workload: every request on listings, at a fixed time, by sellers,
\* buyers and a logged-in admin.
Tokens == issued
Ids == 1..(MaxListings + 1)

Next ==
    \/ \E u \in Usernames, p \in Passwords : admin_login(u, p)
    \/ \E d \in SubmitInputs :
          Cardinality(DOMAIN gadgets) < MaxListings /\ submit_gadget(d)
    \/ \E t \in Tokens, d \in AddInputs :
          Cardinality(DOMAIN gadgets) < MaxListings /\ add_listing(t, d)
    \/ \E t \in Tokens : get_dashboard_data(t)
    \/ \E t \in Tokens, id \in Ids, u \in UpdateInputs : update_listing_details(t, id, u)
    \/ \E t \in Tokens, id \in Ids, s \in ListingStatus : update_listing_status(t, id, s)
    \/ \E ty \in {NULL, Some("laptop")}, lo \in {NULL, Some(20)},
          hi \in {NULL, Some(10)}, c \in {NULL, Some("used")} :
          get_public_listings(ty, lo, hi, c)
    \/ get_approved_listings
    \/ \E t \in Tokens : get_pending_listings(t)
    \/ \E t \in Tokens, a \in ListingStatus, ids \in SUBSET Ids :
          bulk_update_listings(t, a, ids)

Spec == Init /\ [][Next]_vars

\* The token workload: every admin route under every kind of token.
AuthTokens == issued \cup ForeignTokens
FewIds == 1..MaxFewListings

NextAuth ==
    \/ \E u \in Usernames, p \in Passwords : admin_login(u, p)
    \/ \E t \in AuthTokens, d \in AddInputs :
          Cardinality(DOMAIN gadgets) < MaxFewListings /\ add_listing(t, d)
    \/ \E t \in AuthTokens : get_dashboard_data(t)
    \/ \E t \in AuthTokens, id \in FewIds :
          update_listing_details(t, id, [listing_price |-> Some(20)])
    \/ \E t \in AuthTokens, id \in FewIds : update_listing_status(t, id, "sold")
    \/ \E t \in AuthTokens, n \in Numbers : update_settings(t, n)
    \/ \E q \in QuestionInputs :
          Cardinality(DOMAIN questions) < MaxQuestions /\ submit_question(q)
    \/ \E t \in AuthTokens, id \in 1..MaxQuestions : delete_question(t, id)
    \/ \E t \in AuthTokens : get_pending_listings(t)
    \/ \E t \in AuthTokens, id \in FewIds : bulk_update_listings(t, "sold", {id})

SpecAuth == Init /\ [][NextAuth]_vars

\* The expiry workload: logins at different times, and every admin route asked
\* with the tokens issued while the clock runs past their expiry.
NextExpiry ==
    \/ now + TickMinutes <= MaxAuthTime /\ Tick
    \/ \E u \in Usernames, p \in Passwords : admin_login(u, p)
    \/ \E t \in Tokens, d \in AddInputs :
          Cardinality(DOMAIN gadgets) < MaxFewListings /\ add_listing(t, d)
    \/ \E t \in Tokens : get_dashboard_data(t)
    \/ \E t \in Tokens, id \in FewIds :
          update_listing_details(t, id, [listing_price |-> Some(20)])
    \/ \E t \in Tokens, id \in FewIds : update_listing_status(t, id, "sold")
    \/ \E t \in Tokens, n \in Numbers : update_settings(t, n)
    \/ \E q \in QuestionInputs :
          Cardinality(DOMAIN questions) < MaxQuestions /\ submit_question(q)
    \/ \E t \in Tokens, id \in 1..MaxQuestions : delete_question(t, id)
    \/ \E t \in Tokens : get_pending_listings(t)
    \/ \E t \in Tokens, id \in FewIds : bulk_update_listings(t, "sold", {id})

SpecExpiry == Init /\ [][NextExpiry]_vars

\* The unknown-id workload: a logged-in admin addressing listings and questions
\* that exist and that do not.
NextNotFound ==
    \/ \E u \in Usernames, p \in Passwords : admin_login(u, p)
    \/ \E t \in Tokens, d \in AddInputs :
          Cardinality(DOMAIN gadgets) < MaxFewListings /\ add_listing(t, d)
    \/ \E t \in Tokens, id \in 1..(MaxFewListings + 1) :
          update_listing_details(t, id, [listing_price |-> NULL])
    \/ \E t \in Tokens, id \in 1..(MaxFewListings + 1), s \in ListingStatus :
          update_listing_status(t, id, s)
    \/ \E t \in Tokens, n \in Numbers : update_settings(t, n)
    \/ \E q \in QuestionInputs :
          Cardinality(DOMAIN questions) < MaxQuestions /\ submit_question(q)
    \/ \E t \in Tokens, id \in 1..(MaxQuestions + 1) : delete_question(t, id)
    \/ \E t \in Tokens, a \in ListingStatus, ids \in SUBSET (1..(MaxFewListings + 1)) :
          bulk_update_listings(t, a, ids)

SpecNotFound == Init /\ [][NextNotFound]_vars

\* The update workload: a logged-in admin editing the fields of listings.  A
\* body may leave fields out, give listing_price as null, or carry a key that
\* GadgetUpdate does not declare (status), which the schema drops.
EveryField ==
    [name |-> "Pixel", gadget_type |-> "laptop", condition |-> "new",
     description |-> "mint", seller_price |-> 7, listing_price |-> Some(20)]
FieldUpdates ==
    {<<>>,
     [name |-> "Pixel"],
     [listing_price |-> NULL],
     [description |-> "mint", seller_price |-> 7],
     [name |-> "Pixel", status |-> "sold"],
     EveryField}

NextUpdate ==
    \/ \E u \in Usernames, p \in Passwords : admin_login(u, p)
    \/ \E t \in Tokens, d \in AddInputs :
          Cardinality(DOMAIN gadgets) < MaxListings /\ add_listing(t, d)
    \/ \E t \in Tokens, id \in Ids, u \in FieldUpdates :
          update_listing_details(t, id, u)

SpecUpdate == Init /\ [][NextUpdate]_vars

\* The settings workload: admins posting contact numbers to several worker
\* processes at once, whose statements interleave.
ConcurrentNumbers == {"w1", "w2"}

NextSettings ==
    \/ \E u \in Usernames, p \in Passwords : admin_login(u, p)
    \/ \E t \in Tokens \cup {NoToken}, n \in ConcurrentNumbers :
          Cardinality(DOMAIN inflight) < MaxRequests /\ update_settings_begin(t, n)
    \/ \E r \in DOMAIN inflight : update_settings_query(r)
    \/ \E r \in DOMAIN inflight : update_settings_commit(r)

SpecSettings == Init /\ [][NextSettings]_vars

-----------------------------------------------------------------------------
\* Vocabulary of the properties.

\* A token the verifier must accept at the current time: signed with the key,
\* not past its expiry, naming an admin of the credential store.
GoodToken(t) ==
    /\ t.kind = "jwt"
    /\ t.sig = "valid"
    /\ t.exp >= now
    /\ ~IsNull(t.sub)
    /\ Val(t.sub) \in DOMAIN admins

\* The four ways a token fails: missing, bad signature, expiry passed, subject
\* not in the admin table.
Missing(t) == t.kind = "none"
Tampered(t) == t.kind = "jwt" /\ t.sig # "valid"
Expired(t) == t.kind = "jwt" /\ t.exp < now
UnknownSubject(t) == t.kind = "jwt" /\ ~IsNull(t.sub) /\ Val(t.sub) \notin DOMAIN admins
BadToken(t) == Missing(t) \/ Tampered(t) \/ Expired(t) \/ UnknownSubject(t)

ProtectedOps ==
    {"add_listing", "get_dashboard_data", "update_listing_details",
     "update_listing_status", "bulk_update_listings", "get_pending_listings",
     "update_settings", "delete_question"}

\* C1: every listing whose status is available has a non-null listing_price.
C1_AvailableHasPrice ==
    \A id \in DOMAIN gadgets :
        gadgets[id].status = "available" => ~IsNull(gadgets[id].listing_price)

\* C2: every listing returned by /listings or /listings/approved, whatever the
\* filters, is stored with status available and a non-null listing_price.
C2_PublicOnlyAvailablePriced ==
    req.op \in {"get_public_listings", "get_approved_listings"} =>
        \A i \in DOMAIN resp.body :
            /\ resp.body[i].status = "available"
            /\ ~IsNull(resp.body[i].listing_price)
            /\ resp.body[i].id \in DOMAIN gadgets
            /\ gadgets[resp.body[i].id].status = "available"
            /\ ~IsNull(gadgets[resp.body[i].id].listing_price)

\* A filtered public query answered with one listing while an available but
\* unpriced listing is stored.
C2_Witness ==
    /\ req.op = "get_public_listings"
    /\ ~IsNull(req.price_max)
    /\ Len(resp.body) = 1
    /\ \E id \in DOMAIN gadgets :
          gadgets[id].status = "available" /\ IsNull(gadgets[id].listing_price)

\* C3: no step removes a listing, and a status update to deleted on a pending
\* listing leaves it stored with status deleted.
C3_NeverRemoved ==
    [][/\ \A id \in DOMAIN gadgets : id \in DOMAIN gadgets'
       /\ (/\ req'.op = "update_listing_status"
           /\ GoodToken(req'.token)
           /\ req'.id \in DOMAIN gadgets
           /\ gadgets[req'.id].status = "pending"
           /\ req'.status = "deleted")
          => /\ req'.id \in DOMAIN gadgets'
             /\ gadgets'[req'.id].status = "deleted"]_vars

\* A pending listing was rejected and is still stored, as deleted.
C3_Witness ==
    /\ req.op = "update_listing_status"
    /\ req.status = "deleted"
    /\ resp.code = 200
    /\ req.id \in DOMAIN before
    /\ before[req.id].status = "pending"
    /\ req.id \in DOMAIN gadgets
    /\ gadgets[req.id].status = "deleted"

\* C4: a bulk update by an admin whose target is outside {available, deleted,
\* sold} answers 400 and changes nothing stored.
C4_BulkBadTarget ==
    [][(/\ req'.op = "bulk_update_listings"
        /\ GoodToken(req'.token)
        /\ req'.action \notin {"available", "deleted", "sold"})
       => /\ resp'.code = 400
          /\ UNCHANGED <<gadgets, questions, settings, admins>>]_vars

\* A bulk update to pending naming a stored listing was answered 400.
C4_Witness ==
    /\ req.op = "bulk_update_listings"
    /\ GoodToken(req.token)
    /\ req.action = "pending"
    /\ req.listing_ids \cap DOMAIN gadgets # {}
    /\ resp.code = 400

\* C5: every admin route answers 401 and changes nothing stored when the token
\* is missing, has a bad signature, is past its expiry or names no admin.
C5_BadTokenRejected ==
    [][(req'.op \in ProtectedOps /\ BadToken(req'.token))
       => /\ resp'.code = 401
          /\ UNCHANGED <<gadgets, questions, settings, admins>>]_vars

\* A properly signed token of the admin was presented to the bulk route after
\* its expiry, naming a stored listing, and was refused.
C5_Witness ==
    /\ req.op = "bulk_update_listings"
    /\ Expired(req.token)
    /\ req.token.sig = "valid"
    /\ Val(req.token.sub) \in DOMAIN admins
    /\ req.listing_ids \cap DOMAIN gadgets # {}
    /\ resp.code = 401

\* C6: a correct login answers a token expiring exactly 30 minutes after
\* issuance; an issued token is accepted by every admin route before its
\* expiry and refused after it, and no step changes the tokens issued.
C6_TokenLifetime ==
    [][/\ (/\ req'.op = "admin_login"
           /\ req'.username \in DOMAIN admins
           /\ verify_password(req'.password, admins[req'.username]))
          => /\ resp'.code = 200
             /\ resp'.body = Jwt(Some(req'.username), now + 30, "valid")
             /\ resp'.body \in issued'
       /\ (req'.op \in ProtectedOps /\ req'.token \in issued)
          => /\ now < req'.token.exp => resp'.code # 401
             /\ now > req'.token.exp => resp'.code = 401
       /\ issued \subseteq issued']_vars

\* The dashboard was asked with an issued token after its expiry and refused.
C6_Witness ==
    /\ req.op = "get_dashboard_data"
    /\ req.token \in issued
    /\ now > req.token.exp
    /\ resp.code = 401

\* The listings a step has created.
Created == DOMAIN gadgets' \ DOMAIN gadgets

\* C7: a seller submission stores exactly one new listing, pending and
\* unpriced; an admin add stores exactly one new listing, available and priced
\* as supplied.
C7_CreatePaths ==
    [][/\ req'.op = "submit_gadget"
          => /\ Cardinality(Created) = 1
             /\ \A id \in Created :
                   /\ gadgets'[id].status = "pending"
                   /\ IsNull(gadgets'[id].listing_price)
       /\ (req'.op = "add_listing" /\ GoodToken(req'.token))
          => /\ Cardinality(Created) = 1
             /\ \A id \in Created :
                   /\ gadgets'[id].status = "available"
                   /\ gadgets'[id].listing_price = Some(req'.data.listing_price)]_vars

\* An admin add was answered while a seller submission is stored.
C7_Witness ==
    /\ req.op = "add_listing"
    /\ resp.code = 200
    /\ gadgets[resp.body.id].status = "available"
    /\ \E id \in DOMAIN before :
          gadgets[id].status = "pending" /\ IsNull(gadgets[id].listing_price)

\* C8: a single-item status update by an admin on a stored listing answers 200
\* and leaves the listing with the requested status, whatever it was before.
C8_StatusApplied ==
    [][(/\ req'.op = "update_listing_status"
        /\ GoodToken(req'.token)
        /\ req'.id \in DOMAIN gadgets)
       => /\ resp'.code = 200
          /\ gadgets'[req'.id].status = req'.status]_vars

\* A deleted listing was set to sold.
C8_Witness ==
    /\ req.op = "update_listing_status"
    /\ resp.code = 200
    /\ req.status = "sold"
    /\ before[req.id].status = "deleted"
    /\ gadgets[req.id].status = "sold"

\* The listing a single-item status update took out of deleted.
LeftDeleted ==
    /\ req.op = "update_listing_status"
    /\ resp.code = 200
    /\ before[req.id].status = "deleted"
    /\ gadgets[req.id].status # "deleted"

\* C9: through the single-item status update a deleted listing changes only to
\* available or pending.
C9_RestoreOnlyAvailablePending ==
    LeftDeleted => gadgets[req.id].status \in {"available", "pending"}

\* C9 as amended: through the single-item status update a deleted listing
\* changes only to the status requested, which is available, pending or sold.
C9_RestoreToRequested ==
    LeftDeleted =>
        /\ gadgets[req.id].status = req.status
        /\ gadgets[req.id].status \in {"available", "pending", "sold"}

\* A deleted listing was restored to pending.
C9_Witness ==
    /\ LeftDeleted
    /\ req.status = "pending"
    /\ gadgets[req.id].status = "pending"

\* A request by an admin addressed to nothing stored.
UnknownListing(r) ==
    /\ r.op \in {"update_listing_details", "update_listing_status"}
    /\ GoodToken(r.token)
    /\ r.id \notin DOMAIN gadgets
UnknownQuestion(r) ==
    /\ r.op = "delete_question"
    /\ GoodToken(r.token)
    /\ r.id \notin DOMAIN questions
BulkOfUnknown(r) ==
    /\ r.op = "bulk_update_listings"
    /\ GoodToken(r.token)
    /\ r.listing_ids \cap DOMAIN gadgets = {}

\* C10: update-fields, status update and question delete on an unknown id, and a
\* bulk update none of whose ids exist, answer 404 and change nothing stored.
C10_UnknownIdNotFound ==
    [][(UnknownListing(req') \/ UnknownQuestion(req') \/ BulkOfUnknown(req'))
       => /\ resp'.code = 404
          /\ UNCHANGED <<gadgets, questions, settings, admins>>]_vars

\* C10 as amended: the same, the bulk update having an allowed target.
C10_UnknownIdNotFoundAllowedTarget ==
    [][(\/ UnknownListing(req')
        \/ UnknownQuestion(req')
        \/ BulkOfUnknown(req') /\ req'.action \in {"available", "deleted", "sold"})
       => /\ resp'.code = 404
          /\ UNCHANGED <<gadgets, questions, settings, admins>>]_vars

\* A bulk update to sold naming only an id that is not stored, while a listing
\* is stored, was answered 404.
C10_Witness ==
    /\ req.op = "bulk_update_listings"
    /\ GoodToken(req.token)
    /\ req.action = "sold"
    /\ req.listing_ids # {}
    /\ req.listing_ids \cap DOMAIN gadgets = {}
    /\ DOMAIN gadgets # {}
    /\ resp.code = 404

\* A bulk update by an admin with an allowed target that names a stored listing.
BulkApplied ==
    /\ req.op = "bulk_update_listings"
    /\ GoodToken(req.token)
    /\ req.action \in {"available", "deleted", "sold"}
    /\ req.listing_ids \cap DOMAIN before # {}

\* C11: such a bulk update sets every stored listing of the id set to the
\* target whatever its status was, ignores the ids that are not stored, and
\* leaves the other listings and every non-status field as they were.
C11_BulkUniform ==
    BulkApplied =>
        /\ resp.code = 200
        /\ DOMAIN gadgets = DOMAIN before
        /\ \A id \in DOMAIN before :
              gadgets[id] = IF id \in req.listing_ids
                            THEN [before[id] EXCEPT !.status = req.action]
                            ELSE before[id]

\* A bulk update to sold named a deleted listing and an id that is not stored,
\* while another listing was outside the id set.
C11_Witness ==
    /\ BulkApplied
    /\ req.action = "sold"
    /\ req.listing_ids \ DOMAIN before # {}
    /\ DOMAIN before \ req.listing_ids # {}
    /\ \E id \in req.listing_ids \cap DOMAIN before :
          before[id].status = "deleted" /\ gadgets[id].status = "sold"

\* The fields a GadgetUpdate body can set.
UpdatableFields ==
    {"name", "gadget_type", "condition", "description", "seller_price",
     "listing_price"}

\* An update-fields request by an admin on a stored listing.
FieldsUpdated ==
    /\ req.op = "update_listing_details"
    /\ GoodToken(req.token)
    /\ req.id \in DOMAIN before

\* C12: update-fields sets exactly the supplied fields to the supplied values;
\* the unsupplied fields, the status, the id and every other listing stay.
C12_UpdateExactlySupplied ==
    FieldsUpdated =>
        /\ resp.code = 200
        /\ DOMAIN gadgets = DOMAIN before
        /\ \A f \in UpdatableFields :
              gadgets[req.id][f] = IF f \in DOMAIN req.update_data
                                   THEN req.update_data[f]
                                   ELSE before[req.id][f]
        /\ gadgets[req.id].status = before[req.id].status
        /\ gadgets[req.id].seller_contact_info = before[req.id].seller_contact_info
        /\ gadgets[req.id].photo_url = before[req.id].photo_url
        /\ \A id \in DOMAIN before \ {req.id} : gadgets[id] = before[id]

\* A priced listing had its listing_price set to null, alone, while another
\* listing was stored.
C12_Witness ==
    /\ FieldsUpdated
    /\ req.update_data = [listing_price |-> NULL]
    /\ ~IsNull(before[req.id].listing_price)
    /\ IsNull(gadgets[req.id].listing_price)
    /\ gadgets[req.id].name = before[req.id].name
    /\ DOMAIN before \ {req.id} # {}

\* Every settings request that was admitted has completed.
AllCompleted ==
    /\ inflight # <<>>
    /\ \A r \in DOMAIN inflight : inflight[r].pc = "done"

\* C13: however the statements of concurrent settings requests interleave, the
\* table holds at most one whatsapp_number row, and when all requests have
\* completed the stored value is the value one of them submitted.
C13_UpsertOneRow ==
    /\ Cardinality(SettingRows("whatsapp_number")) <= 1
    /\ AllCompleted =>
          /\ SettingRows("whatsapp_number") # {}
          /\ \E r \in DOMAIN inflight :
                Val(get_admin_whatsapp) = inflight[r].whatsapp_number

\* Two requests with different numbers both read an empty table before either
\* wrote; both have completed, one of them refused by the unique index.
C13_Witness ==
    /\ AllCompleted
    /\ \E r1, r2 \in DOMAIN inflight :
          /\ inflight[r1].whatsapp_number # inflight[r2].whatsapp_number
          /\ IsNull(inflight[r1].whatsapp_setting)
          /\ IsNull(inflight[r2].whatsapp_setting)
          /\ inflight[r1].code = 200
          /\ inflight[r2].code = 500
    /\ Cardinality(SettingRows("whatsapp_number")) = 1

====
